---------------------------- MODULE Spec2Model ----------------------------
(***************************************************************************)
(* Model of scripts/update_playlists.py: the token provider, the CSV        *)
(* reader, the URI normalizer, the row resolver, the dedup and per-artist  *)
(* cap partitioner and the playlist publisher; and of the wait for the     *)
(* authorization code in scripts/get_spotify_refresh_token.py.             *)
(*                                                                         *)
(* Strings are sequences of one-character strings, so that the regular     *)
(* expressions of the source are modelled by what they match.  Python's    *)
(* None is the one-element sequence None, which is not a character.        *)
(***************************************************************************)
EXTENDS Integers, Sequences, FiniteSets, TLC

VARIABLES
    pc,             \* position of the script
    maybe_uri,      \* normalize_to_uri: the argument
    uri,            \* normalize_to_uri: the value returned
    uri2,           \* normalize_to_uri applied to the value returned
    rows,           \* main: the rows read from the CSV
    idx,            \* main: number of rows the resolution loop has handled
    resolved_uris,  \* main: URIs of the resolved rows
    unresolved,     \* main: <<row number, row>> of the unresolved rows
    search_calls,   \* catalog service: the search requests received, in order,
                    \* each with the row it was issued for and the reply given
    resolved_rows,  \* history: the row number each entry of resolved_uris came from
    unique_uris,    \* main: resolved_uris without repeats
    playlist1_uris, \* main: the list for playlist one (max 3 per artist)
    playlist2_uris, \* main: the list for playlist two (max 1 per artist)
    result,         \* partition_by_artist_limit: the list being built
    counts,         \* partition_by_artist_limit: artist name -> tracks kept
    offset,         \* partition_by_artist_limit: start of the next chunk
    catalog,        \* catalog service: track id -> its metadata
    meta_calls,     \* catalog service: the batch metadata requests received,
                    \* each with the pass that issued it and the status replied
    playlists,      \* playlist service: the contents of playlist one and two
    clears,         \* playlist service: per playlist, the statuses replied to
                    \* the replace-with-empty requests
    first_posts,    \* playlist service: per playlist, the batches posted
                    \* (repeats of a batch not counted)
    add_i,          \* add_tracks_in_batches: start of the next batch
    posts,          \* add_tracks_in_batches: the requests of the latest batch
    slept,          \* add_tracks_in_batches: the sleeps of the latest batch
    exit_code,      \* the exit code of the process, NotExited while it runs
    env,            \* the environment variables the script reads at import
    access_token,   \* main: the value get_access_token returned
    token_calls,    \* accounts service: the token requests received, in order
    browser_opens,  \* number of times the authorization URL was opened
    input_reads,    \* what the operator typed at each prompt
    env_file,       \* the credential file .env: its <<key, value>> lines, or None
    env_writes,     \* number of times the credential file was written
    csv_source,     \* read_csv: what CSV_PATH points at
    h_pc,           \* refresh-token helper: position of the main thread
    l_pc,           \* refresh-token helper: position of the listener thread
    httpd,          \* the HTTPServer object: its auth_code and auth_error
    auth_code,      \* helper main: the local variable auth_code
    tmp_file,       \* contents of .spotify_auth_code.tmp, None when absent
    elapsed,        \* seconds main has slept in its wait loop
    callbacks,      \* the requests the listener has handled, in order
    pasted          \* what the operator typed at the helper's prompt, None before

normVars == <<maybe_uri, uri, uri2>>
rowVars == <<rows, idx, unresolved, search_calls, resolved_rows>>
resolveVars == <<rowVars, resolved_uris>>
capVars == <<unique_uris, playlist1_uris, playlist2_uris, result, counts, offset,
             catalog, meta_calls>>
pubVars == <<playlists, clears, first_posts, add_i, posts, slept, exit_code>>
startVars == <<env, access_token, token_calls, browser_opens, input_reads, env_file,
               env_writes, csv_source>>
helperVars == <<h_pc, l_pc, httpd, auth_code, tmp_file, elapsed, callbacks, pasted>>
vars == <<pc, normVars, resolveVars, capVars, pubVars, startVars, helperVars>>

-----------------------------------------------------------------------------
(* Characters *)

Lower == {"a","b","c","d","e","f","g","h","i","j","k","l","m","n","o","p","q",
          "r","s","t","u","v","w","x","y","z"}
Upper == {"A","B","C","D","E","F","G","H","I","J","K","L","M","N","O","P","Q",
          "R","S","T","U","V","W","X","Y","Z"}
Digit == {"0","1","2","3","4","5","6","7","8","9"}

\* the character class [A-Za-z0-9]
Alnum == Lower \cup Upper \cup Digit

None == <<"None">>

\* Python truthiness of an Optional[str]
Truthy(s) == s # None /\ s # <<>>

\* the literal "spotify:track:" of the first regular expression and of the f-string
CanonPrefix == <<"s","p","o","t","i","f","y",":","t","r","a","c","k",":">>

\* the pattern "open.spotify.com/track/"; its two dots are unescaped and
\* match any character but a newline
WebPattern == <<"o","p","e","n",".","s","p","o","t","i","f","y",".","c","o","m",
                "/","t","r","a","c","k","/">>

\* length of a track id, {22} in the third regular expression
IdLen == 22

\* length of the longest run of [A-Za-z0-9] starting at position i (greedy +)
RunLen(s, i) ==
    CHOOSE n \in 0..(Len(s) - i + 1) :
        /\ \A k \in 0..(n - 1) : s[i + k] \in Alnum
        /\ (i + n > Len(s) \/ s[i + n] \notin Alnum)

\* re.match(r"spotify:track:([A-Za-z0-9]+)", s): anchored at the start only
MatchCanon(s) ==
    /\ Len(s) > Len(CanonPrefix)
    /\ SubSeq(s, 1, Len(CanonPrefix)) = CanonPrefix
    /\ s[Len(CanonPrefix) + 1] \in Alnum

CanonGroup(s) ==
    SubSeq(s, Len(CanonPrefix) + 1, Len(CanonPrefix) + RunLen(s, Len(CanonPrefix) + 1))

\* the pattern open.spotify.com/track/([A-Za-z0-9]+) matches at position p
WebMatchAt(s, p) ==
    /\ p + Len(WebPattern) <= Len(s)
    /\ \A k \in 1..Len(WebPattern) :
          IF WebPattern[k] = "." THEN s[p + k - 1] # "\n"
                                 ELSE s[p + k - 1] = WebPattern[k]
    /\ s[p + Len(WebPattern)] \in Alnum

\* re.search(r"open.spotify.com/track/([A-Za-z0-9]+)", s): leftmost match
SearchWeb(s) == \E p \in 1..Len(s) : WebMatchAt(s, p)

WebGroup(s) ==
    LET p == CHOOSE q \in 1..Len(s) :
                 WebMatchAt(s, q) /\ \A r \in 1..(q - 1) : ~WebMatchAt(s, r)
    IN  SubSeq(s, p + Len(WebPattern), p + Len(WebPattern) - 1 + RunLen(s, p + Len(WebPattern)))

\* re.match(r"^[A-Za-z0-9]{22}$", s): without re.MULTILINE, $ matches at the
\* end of the string and also just before a newline that ends the string
MatchPlainId(s) ==
    /\ Len(s) >= IdLen
    /\ \A k \in 1..IdLen : s[k] \in Alnum
    /\ \/ Len(s) = IdLen
       \/ Len(s) = IdLen + 1 /\ s[IdLen + 1] = "\n"

extract_track_id_from_url(url) ==
    IF ~Truthy(url) THEN None
    ELSE IF MatchCanon(url) THEN CanonGroup(url)
    ELSE IF SearchWeb(url) THEN WebGroup(url)
    ELSE IF MatchPlainId(url) THEN url
    ELSE None

normalize_to_uri(s) ==
    IF ~Truthy(s) THEN None
    ELSE LET tid == extract_track_id_from_url(s)
         IN  IF Truthy(tid) THEN CanonPrefix \o tid
             ELSE IF MatchCanon(s) THEN s
             ELSE None

-----------------------------------------------------------------------------
(* Inputs of the normalizer: a lead, a run of id characters, a tail *)

Run(c, n) == [k \in 1..n |-> c]

WebPrefix == <<"h","t","t","p","s",":","/","/","o","p","e","n",".","s","p","o",
               "t","i","f","y",".","c","o","m","/","t","r","a","c","k","/">>

\* the same address with the dots of the host replaced
WebPrefixNoDots == <<"o","p","e","n","x","s","p","o","t","i","f","y","-","c","o","m",
                     "/","t","r","a","c","k","/">>

Leads == { <<>>, CanonPrefix, WebPrefix, WebPrefixNoDots, <<" ">> \o CanonPrefix,
           <<"s","o","n","g"," ">> }

\* extra characters the inputs may carry beyond the length of an id
MaxExtra == 1

RunLens == {0, 3} \cup ((IdLen - 1)..(IdLen + MaxExtra))

IdChars == {"A", "7"}

Tails == { <<>>, <<"\n">>, <<"?","s","i","=","1">>, <<":","x">> }

NormInputs ==
    {None} \cup
    { l \o Run(c, n) \o t : l \in Leads, c \in IdChars, n \in RunLens, t \in Tails }

-----------------------------------------------------------------------------
(* Rows and the row resolver *)

\* A Row is a Python dict in insertion order: a sequence of <<key, value>>
\* with distinct keys.
HasKey(row, key) == \E i \in 1..Len(row) : row[i][1] = key

\* row.get(key)
Get(row, key) ==
    IF HasKey(row, key) THEN row[CHOOSE i \in 1..Len(row) : row[i][1] = key][2]
    ELSE None

\* Python's `a or b`
Or(a, b) == IF Truthy(a) THEN a ELSE b

\* a reply of the catalog service to a search request
SearchOk(items) == [status |-> 200, items |-> items]
SearchFailed(code) == [status |-> code, items |-> <<>>]

\* the request search_track sends: q = 'track:<title>' + ' artist:<artist>'
SearchQuery(title, artist) ==
    [track  |-> IF Truthy(title) THEN title ELSE None,
     artist |-> IF Truthy(artist) THEN artist ELSE None]

search_track(title, artist, resp) ==
    IF resp.status = 200
    THEN IF resp.items # <<>> THEN resp.items[1] ELSE None
    ELSE None

\* the scan with only the values in the spotify:track: form accepted
ScanValues_CanonOnly(row) ==
    LET hits == { i \in 1..Len(row) : Truthy(row[i][2]) /\ MatchCanon(row[i][2]) }
    IN  IF hits = {} THEN None
        ELSE normalize_to_uri(row[CHOOSE i \in hits : \A j \in hits : i <= j][2])

\* lines 290-294: the first value of the row, in column order, that normalizes
ScanValues(row) ==
    LET hits == { i \in 1..Len(row) :
                     Truthy(row[i][2]) /\ Truthy(normalize_to_uri(row[i][2])) }
    IN  IF hits = {} THEN None
        ELSE normalize_to_uri(row[CHOOSE i \in hits : \A j \in hits : i <= j][2])

\* lines 297-306: the first of the keys, in the order given, whose value normalizes
RECURSIVE KeyLookup(_, _)
KeyLookup(row, keys) ==
    IF keys = <<>> THEN None
    ELSE LET v == Get(row, Head(keys))
         IN  IF HasKey(row, Head(keys)) /\ Truthy(v) /\ Truthy(normalize_to_uri(v))
             THEN normalize_to_uri(v)
             ELSE KeyLookup(row, Tail(keys))

\* lines 307-315: as KeyLookup, and a bare id is converted directly
RECURSIVE IdLookup(_, _)
IdLookup(row, keys) ==
    IF keys = <<>> THEN None
    ELSE LET maybe == Get(row, Head(keys))
         IN  IF HasKey(row, Head(keys)) /\ Truthy(maybe)
             THEN IF Truthy(normalize_to_uri(maybe)) THEN normalize_to_uri(maybe)
                  ELSE IF MatchPlainId(maybe) THEN CanonPrefix \o maybe
                  ELSE IdLookup(row, Tail(keys))
             ELSE IdLookup(row, Tail(keys))

UriKeys == <<"spotify_uri", "uri", "track_uri">>
UrlKeys == <<"spotify_url", "url", "track_url">>
IdKeys  == <<"id", "track_id">>

\* lines 296-315: the well-known column names
WellKnownLookup(row) ==
    Or(KeyLookup(row, UriKeys), Or(KeyLookup(row, UrlKeys), IdLookup(row, IdKeys)))

\* the resolver with the search tried before the values of the row
resolve_row_to_uri_SearchFirst(row, resp) ==
    LET scanned == ScanValues(row)
        known   == WellKnownLookup(row)
        title   == Or(Get(row, "title"), Get(row, "name"))
        artist  == Get(row, "artist")
        found   == search_track(title, artist, resp)
    IN  IF Truthy(title) /\ Truthy(found)
        THEN [uri |-> found, calls |-> <<SearchQuery(title, artist)>>]
        ELSE [uri   |-> Or(scanned, Or(known, None)),
              calls |-> IF Truthy(title) THEN <<SearchQuery(title, artist)>> ELSE <<>>]

\* resolve_row_to_uri: the URI returned (or None) and the search requests
\* issued, given the reply resp the service gives to a search request
resolve_row_to_uri(row, resp) ==
    LET scanned == ScanValues(row)
        known   == WellKnownLookup(row)
        title   == Or(Get(row, "title"), Get(row, "name"))
        artist  == Get(row, "artist")
    IN  IF Truthy(scanned) THEN [uri |-> scanned, calls |-> <<>>]
        ELSE IF Truthy(known) THEN [uri |-> known, calls |-> <<>>]
        ELSE IF Truthy(title)
             THEN [uri   |-> Or(search_track(title, artist, resp), None),
                   calls |-> <<SearchQuery(title, artist)>>]
             ELSE [uri |-> None, calls |-> <<>>]

-----------------------------------------------------------------------------
(* Deduplication and the per-artist cap *)

\* lines 410-415: keep the first occurrence of every URI
RECURSIVE DedupFrom(_, _, _)
DedupFrom(todo, seen, unique) ==
    IF todo = <<>> THEN unique
    ELSE IF Head(todo) \notin seen
         THEN DedupFrom(Tail(todo), seen \cup {Head(todo)}, Append(unique, Head(todo)))
         ELSE DedupFrom(Tail(todo), seen, unique)

\* deduplication that keeps the last occurrence of every URI
RECURSIVE Dedup_KeepLast(_)
Dedup_KeepLast(uris) ==
    IF uris = <<>> THEN <<>>
    ELSE IF \E k \in 2..Len(uris) : uris[k] = Head(uris)
         THEN Dedup_KeepLast(Tail(uris))
         ELSE <<Head(uris)>> \o Dedup_KeepLast(Tail(uris))

Dedup(uris) == DedupFrom(uris, {}, <<>>)

\* u.split(":")[-1]: what follows the last colon
IdOf(u) ==
    LET colons == { i \in 1..Len(u) : u[i] = ":" }
        last   == IF colons = {} THEN 0
                  ELSE CHOOSE i \in colons : \A j \in colons : j <= i
    IN  SubSeq(u, last + 1, Len(u))

\* lst[i:i+n] with i counted from 0
Chunk(lst, i, n) ==
    SubSeq(lst, i + 1, IF i + n < Len(lst) THEN i + n ELSE Len(lst))

\* counts.get(name, 0)
CountOf(cnt, name) == IF name \in DOMAIN cnt THEN cnt[name] ELSE 0

\* the track objects of GET /tracks?ids=...: one per id, in the order asked
\* for, null for an id the catalog does not hold
NullItem == [isnull |-> TRUE]

TrackItem(cat, id) ==
    IF cat[id] = NullItem THEN NullItem
    ELSE [isnull |-> FALSE, uri |-> CanonPrefix \o id, artists |-> cat[id].artists]

MetaItems(cat, ids) == [k \in 1..Len(ids) |-> TrackItem(cat, ids[k])]

\* line 355 with the sentinel used for a null list of artists only, and an
\* empty list counted under the empty name
ArtistName_EmptySeparate(item) ==
    IF Truthy(item.artists) THEN item.artists[1]
    ELSE IF item.artists = None THEN "Unknown" ELSE ""

\* line 355: the name of the first artist, or the sentinel
ArtistName(item) ==
    IF Truthy(item.artists) THEN item.artists[1] ELSE "Unknown"

\* the loop over the items with the test cur <= max_per_artist
RECURSIVE TakeItems_OffByOne(_, _, _, _)
TakeItems_OffByOne(items, res, cnt, max_per_artist) ==
    IF items = <<>> THEN [result |-> res, counts |-> cnt]
    ELSE LET item == Head(items)
         IN  IF item.isnull THEN TakeItems_OffByOne(Tail(items), res, cnt, max_per_artist)
             ELSE LET name == ArtistName(item)
                      cur  == CountOf(cnt, name)
                  IN  IF cur <= max_per_artist
                      THEN TakeItems_OffByOne(Tail(items), Append(res, item.uri),
                                     [a \in DOMAIN cnt \cup {name} |->
                                         IF a = name THEN cur + 1 ELSE cnt[a]],
                                     max_per_artist)
                      ELSE TakeItems_OffByOne(Tail(items), res, cnt, max_per_artist)

\* lines 350-361: the loop over the items of one reply
RECURSIVE TakeItems(_, _, _, _)
TakeItems(items, res, cnt, max_per_artist) ==
    IF items = <<>> THEN [result |-> res, counts |-> cnt]
    ELSE LET item == Head(items)
         IN  IF item.isnull THEN TakeItems(Tail(items), res, cnt, max_per_artist)
             ELSE LET name == ArtistName(item)
                      cur  == CountOf(cnt, name)
                  IN  IF cur < max_per_artist
                      THEN TakeItems(Tail(items), Append(res, item.uri),
                                     [a \in DOMAIN cnt \cup {name} |->
                                         IF a = name THEN cur + 1 ELSE cnt[a]],
                                     max_per_artist)
                      ELSE TakeItems(Tail(items), res, cnt, max_per_artist)

-----------------------------------------------------------------------------
(* The token provider and the CSV reader: values and pure parts *)

Whitespace == {" ", "\t", "\n"}

RECURSIVE LStrip(_)
LStrip(s) == IF s # <<>> /\ Head(s) \in Whitespace THEN LStrip(Tail(s)) ELSE s

RECURSIVE RStrip(_)
RStrip(s) ==
    IF s # <<>> /\ s[Len(s)] \in Whitespace THEN RStrip(SubSeq(s, 1, Len(s) - 1)) ELSE s

\* str.strip()
Strip(s) == RStrip(LStrip(s))

\* the exception get_access_token_from_refresh raises, as a value
RuntimeError == <<"RuntimeError">>

\* input() at end of input
EOFError == <<"EOFError">>

\* a reply of the accounts service to a token request
TokenReply(status, access, refresh) ==
    [status |-> status, access_token |-> access, refresh_token |-> refresh]

\* lines 73-83: what get_access_token_from_refresh makes of the reply
get_access_token_from_refresh(reply) ==
    IF reply.status # 200 THEN RuntimeError
    ELSE IF ~Truthy(reply.access_token) THEN RuntimeError
    ELSE reply.access_token

\* the request of get_access_token_from_refresh, lines 67-72
RefreshRequest(client_id, client_secret, refresh_token, reply) ==
    [grant |-> "refresh_token", credential |-> refresh_token,
     client |-> <<client_id, client_secret>>, reply |-> reply]

\* the request of lines 153-161
CodeRequest(client_id, client_secret, code, reply) ==
    [grant |-> "authorization_code", credential |-> code,
     client |-> <<client_id, client_secret>>, reply |-> reply]

\* the keys whose lines the rewrite of .env replaces, line 176
SpotifyKeys == {"SPOTIFY_CLIENT_ID", "SPOTIFY_CLIENT_SECRET", "SPOTIFY_REFRESH_TOKEN"}

KeepLine(line) == line[1] \notin SpotifyKeys

\* lines 171-181: the new contents of .env
WriteEnv(file, client_id, client_secret, refresh) ==
    (IF file = None THEN <<>> ELSE SelectSeq(file, KeepLine))
    \o << <<"SPOTIFY_CLIENT_ID", client_id>>,
          <<"SPOTIFY_CLIENT_SECRET", client_secret>>,
          <<"SPOTIFY_REFRESH_TOKEN", refresh>> >>

\* line 94 with a configured refresh credential preferred to the direct token
HasDirect_UnlessRefresh ==
    /\ Truthy(env.ACCESS_TOKEN_ENV)
    /\ ~(Truthy(env.REFRESH_TOKEN) /\ Truthy(env.CLIENT_ID) /\ Truthy(env.CLIENT_SECRET))

\* line 94, line 99 and line 111
HasDirect == Truthy(env.ACCESS_TOKEN_ENV)

HasRefresh ==
    Truthy(env.REFRESH_TOKEN) /\ Truthy(env.CLIENT_ID) /\ Truthy(env.CLIENT_SECRET)

HasClient == Truthy(env.CLIENT_ID) /\ Truthy(env.CLIENT_SECRET)

\* line 115
Unattended == Truthy(env.GITHUB_ACTIONS) \/ Truthy(env.CI)

\* k.strip().lower() of the header names of the CSV, line 272 and 281
HeaderKey(h) ==
    CASE h = " URL" -> "url"
      [] h = "Title " -> "title"
      [] h = "artist" -> "artist"

\* lines 272 and 281: the row as a list of <<key, value>> in column order
LowRow(r) == [k \in 1..Len(r) |-> << HeaderKey(r[k][1]),
                                     IF r[k][2] = None THEN <<>> ELSE Strip(r[k][2]) >>]

-----------------------------------------------------------------------------
(* The normalizer on its own *)

IdleNorm ==
    /\ maybe_uri = None
    /\ uri = None
    /\ uri2 = None

EmptyMap == [a \in {} |-> 0]

IdleCap ==
    /\ unique_uris = <<>>
    /\ playlist1_uris = <<>>
    /\ playlist2_uris = <<>>
    /\ result = <<>>
    /\ counts = EmptyMap
    /\ offset = 0
    /\ catalog = EmptyMap
    /\ meta_calls = <<>>

\* exit_code while the process has not exited
NotExited == "running"

\* what the two playlists hold before the run
OldContents == << CanonPrefix \o Run("Z", IdLen) >>

IdlePublish ==
    /\ playlists = <<OldContents, OldContents>>
    /\ clears = << <<>>, <<>> >>
    /\ first_posts = <<0, 0>>
    /\ add_i = 0
    /\ posts = <<>>
    /\ slept = <<>>
    /\ exit_code = NotExited

IdleResolve ==
    /\ rows = <<>>
    /\ idx = 0
    /\ resolved_uris = <<>>
    /\ unresolved = <<>>
    /\ search_calls = <<>>
    /\ resolved_rows = <<>>

NoEnv == [ACCESS_TOKEN_ENV |-> None, REFRESH_TOKEN |-> None, CLIENT_ID |-> None,
          CLIENT_SECRET |-> None, GITHUB_ACTIONS |-> None, CI |-> None]

NoSource == [kind |-> "none"]

IdleStart ==
    /\ env = NoEnv
    /\ access_token = None
    /\ token_calls = <<>>
    /\ browser_opens = 0
    /\ input_reads = <<>>
    /\ env_file = None
    /\ env_writes = 0
    /\ csv_source = NoSource

NoServer == [auth_code |-> None, auth_error |-> None]

IdleHelper ==
    /\ h_pc = "idle"
    /\ l_pc = "idle"
    /\ httpd = NoServer
    /\ auth_code = None
    /\ tmp_file = None
    /\ elapsed = 0
    /\ callbacks = <<>>
    /\ pasted = None

InitNorm ==
    /\ pc = "norm"
    /\ maybe_uri \in NormInputs
    /\ uri = None
    /\ uri2 = None
    /\ IdleResolve
    /\ IdleCap
    /\ IdlePublish
    /\ IdleStart
    /\ IdleHelper

Normalize ==
    /\ pc = "norm"
    /\ uri' = normalize_to_uri(maybe_uri)
    /\ pc' = "normalized"
    /\ UNCHANGED <<startVars, helperVars, maybe_uri, uri2, resolveVars, capVars, pubVars>>

NormalizeAgain ==
    /\ pc = "normalized"
    /\ uri2' = normalize_to_uri(uri)
    /\ pc' = "renormalized"
    /\ UNCHANGED <<startVars, helperVars, maybe_uri, uri, resolveVars, capVars, pubVars>>

NextNorm == Normalize \/ NormalizeAgain

SpecNorm == InitNorm /\ [][NextNorm]_vars

\* C4: whenever normalize_to_uri returns a URI, it is spotify:track:<id> with
\* <id> exactly 22 alphanumeric characters.
C4_NormalizedIdIs22 ==
    (pc = "normalized" /\ uri # None) =>
        /\ Len(uri) = Len(CanonPrefix) + IdLen
        /\ SubSeq(uri, 1, Len(CanonPrefix)) = CanonPrefix
        /\ \A k \in (Len(CanonPrefix) + 1)..Len(uri) : uri[k] \in Alnum

\* C5: normalize_to_uri is idempotent: normalizing a URI it returned gives
\* that URI back unchanged.
C5_Idempotent ==
    (pc = "renormalized" /\ uri # None) => uri2 = uri

-----------------------------------------------------------------------------
(* The resolution loop of main *)

TrackUri(c) == CanonPrefix \o Run(c, IdLen)

SongText   == <<"S","o","n","g"," ","A">>
ArtistText == <<"A","r","t","i","s","t","1">>
WebUrl7    == WebPrefix \o Run("7", IdLen) \o <<"?","s","i","=","1">>

\* column names and cell values of the rows explored
RowKeys == {"title", "name", "artist", "url", "id"}
RowValues == { <<>>, SongText, WebUrl7, Run("B", IdLen) }

\* most columns of a row explored on its own
MaxCols == 3

\* most rows of a CSV explored through the loop
MaxRows == 3

RowsOfWidth(n) ==
    { r \in [1..n -> RowKeys \X RowValues] :
         \A i, j \in 1..n : r[i][1] = r[j][1] => i = j }

AllRows == UNION { RowsOfWidth(n) : n \in 0..MaxCols }

\* the rows the loop is explored with when the CSV has several rows
LoopRows ==
    { << <<"title", SongText>>, <<"url", WebUrl7>> >>,
      << <<"uri", TrackUri("A")>> >>,
      << <<"title", SongText>>, <<"artist", ArtistText>> >>,
      << <<"name", <<>> >>, <<"artist", ArtistText>> >>,
      << <<"id", Run("B", IdLen)>>, <<"name", SongText>> >> }

CsvInputs ==
    { <<r>> : r \in AllRows } \cup
    UNION { [1..n -> LoopRows] : n \in 0..MaxRows }

\* replies of the catalog service to a search request
SearchResponses ==
    { SearchOk(<<>>), SearchOk(<<TrackUri("C")>>), SearchOk(<<TrackUri("A")>>),
      SearchFailed(429) }

\* the service replies to the requests it receives: a row that is resolved
\* without a search request has no reply to choose
RepliesTo(row) ==
    IF resolve_row_to_uri(row, SearchFailed(429)).calls = <<>>
    THEN {SearchFailed(429)}
    ELSE SearchResponses

InitResolve ==
    /\ pc = "resolve"
    /\ rows \in CsvInputs
    /\ idx = 0
    /\ resolved_uris = <<>>
    /\ unresolved = <<>>
    /\ search_calls = <<>>
    /\ resolved_rows = <<>>
    /\ IdleNorm
    /\ IdleCap
    /\ IdlePublish
    /\ IdleStart
    /\ IdleHelper

\* the iteration with unresolved rows recorded under idx instead of idx + 1
ResolveRow_OffByOne ==
    /\ pc = "resolve"
    /\ idx < Len(rows)
    /\ \E resp \in RepliesTo(rows[idx + 1]) :
          LET r == resolve_row_to_uri(rows[idx + 1], resp)
          IN  /\ search_calls' = search_calls \o
                    [k \in 1..Len(r.calls) |->
                        [row |-> idx + 1, q |-> r.calls[k], reply |-> resp]]
              /\ IF Truthy(r.uri)
                 THEN /\ resolved_uris' = Append(resolved_uris, r.uri)
                      /\ resolved_rows' = Append(resolved_rows, idx + 1)
                      /\ UNCHANGED unresolved
                 ELSE /\ unresolved' = Append(unresolved, <<idx, rows[idx + 1]>>)
                      /\ UNCHANGED <<resolved_uris, resolved_rows>>
    /\ idx' = idx + 1
    /\ UNCHANGED <<startVars, helperVars, pc, rows, normVars, capVars, pubVars>>

\* lines 399-404: one iteration of the loop over the rows
ResolveRow ==
    /\ pc = "resolve"
    /\ idx < Len(rows)
    /\ \E resp \in RepliesTo(rows[idx + 1]) :
          LET r == resolve_row_to_uri(rows[idx + 1], resp)
          IN  /\ search_calls' = search_calls \o
                    [k \in 1..Len(r.calls) |->
                        [row |-> idx + 1, q |-> r.calls[k], reply |-> resp]]
              /\ IF Truthy(r.uri)
                 THEN /\ resolved_uris' = Append(resolved_uris, r.uri)
                      /\ resolved_rows' = Append(resolved_rows, idx + 1)
                      /\ UNCHANGED unresolved
                 ELSE /\ unresolved' = Append(unresolved, <<idx + 1, rows[idx + 1]>>)
                      /\ UNCHANGED <<resolved_uris, resolved_rows>>
    /\ idx' = idx + 1
    /\ UNCHANGED <<startVars, helperVars, pc, rows, normVars, capVars, pubVars>>

\* lines 405-407: the loop is over, the tally is logged
FinishResolve ==
    /\ pc = "resolve"
    /\ idx = Len(rows)
    /\ pc' = "dedup"
    /\ UNCHANGED <<startVars, helperVars, resolveVars, normVars, capVars, pubVars>>

NextResolve == ResolveRow \/ FinishResolve

SpecResolve == InitResolve /\ [][NextResolve]_vars

\* the values of a row the normalizer accepts, by column position
UriLike(row) ==
    { i \in 1..Len(row) : Truthy(row[i][2]) /\ normalize_to_uri(row[i][2]) # None }

SearchesFor(n) == { k \in 1..Len(search_calls) : search_calls[k].row = n }

ResolvedAs(n, u) ==
    \E k \in 1..Len(resolved_uris) : resolved_rows[k] = n /\ resolved_uris[k] = u

\* C6: a row holding a URI-like value in any column resolves to the
\* normalized URI of that value (the first one in column order) without a
\* search request; a search request is issued only for a row none of whose
\* values normalizes and whose title or name is non-empty, and at most once
\* per row.
C6_UriValueWinsNoSearch ==
    \A n \in 1..idx :
        LET row == rows[n]
            urilike == UriLike(row)
            first == CHOOSE i \in urilike : \A j \in urilike : i <= j
        IN  /\ Cardinality(SearchesFor(n)) <= 1
            /\ urilike # {} =>
                  /\ SearchesFor(n) = {}
                  /\ ResolvedAs(n, normalize_to_uri(row[first][2]))
            /\ SearchesFor(n) # {} =>
                  /\ urilike = {}
                  /\ Truthy(Get(row, "title")) \/ Truthy(Get(row, "name"))

\* a row with a title, an artist and a URI-like value has been resolved
C6_Witness ==
    \E n \in 1..idx :
        /\ Len(rows[n]) = 3
        /\ Truthy(Get(rows[n], "title"))
        /\ Truthy(Get(rows[n], "artist"))
        /\ rows[n][3][1] = "url" /\ rows[n][3][2] = WebUrl7
        /\ ResolvedAs(n, TrackUri("7"))
        /\ search_calls = <<>>

UnresolvedNos == { unresolved[k][1] : k \in 1..Len(unresolved) }
ResolvedNos == { resolved_rows[k] : k \in 1..Len(resolved_rows) }

Increasing(seq) == \A i, j \in 1..Len(seq) : i < j => seq[i] < seq[j]

\* C7: a search request that fails or finds nothing leaves its row
\* unresolved and does not end the run; every row handled is counted exactly
\* once, as resolved or as unresolved, the loop ends only when every row is
\* handled, and resolved_uris is in row order.
C7_SearchFailureNotFatal ==
    /\ pc \in {"resolve", "dedup"}
    /\ pc = "dedup" => idx = Len(rows)
    /\ Len(resolved_uris) + Len(unresolved) = idx
    /\ ResolvedNos \cup UnresolvedNos = 1..idx
    /\ ResolvedNos \cap UnresolvedNos = {}
    /\ Len(resolved_rows) = Len(resolved_uris)
    /\ Increasing(resolved_rows)
    /\ Increasing([k \in 1..Len(unresolved) |-> unresolved[k][1]])
    /\ \A k \in 1..Len(unresolved) : unresolved[k][2] = rows[unresolved[k][1]]
    /\ \A k \in 1..Len(search_calls) :
          (search_calls[k].reply.status # 200 \/ search_calls[k].reply.items = <<>>)
              => search_calls[k].row \in UnresolvedNos
    /\ \A k \in 1..Len(search_calls) :
          (search_calls[k].reply.status = 200 /\ search_calls[k].reply.items # <<>>)
              => ResolvedAs(search_calls[k].row, search_calls[k].reply.items[1])

\* the search for the first row failed, a later row was resolved and the
\* loop has ended
C7_Witness ==
    /\ pc = "dedup"
    /\ Len(rows) = 3
    /\ \E k \in 1..Len(search_calls) :
          search_calls[k].row = 1 /\ search_calls[k].reply.status # 200
    /\ 1 \in UnresolvedNos
    /\ 3 \in ResolvedNos

\* C18: a handled row resolves to the normalization of its first non-empty
\* value, in column order, that the normalizer accepts.  When there is no
\* such value the lookups under the well-known column names find nothing
\* either; the row then resolves to the first item of the reply to its one
\* search request if it has a non-empty title or name, and is unresolved,
\* without a search request, otherwise.
C18_WellKnownLookupsNeverDecide ==
    \A n \in 1..idx :
        LET row      == rows[n]
            accepted == { i \in 1..Len(row) :
                             row[i][2] # <<>> /\ normalize_to_uri(row[i][2]) # None }
            first    == CHOOSE i \in accepted : \A j \in accepted : i <= j
            titled   == \E i \in 1..Len(row) :
                           row[i][1] \in {"title", "name"} /\ row[i][2] # <<>>
        IN  IF accepted # {}
            THEN ResolvedAs(n, normalize_to_uri(row[first][2]))
            ELSE /\ WellKnownLookup(row) = None
                 /\ IF titled
                    THEN \E k \in 1..Len(search_calls) :
                           /\ SearchesFor(n) = {k}
                           /\ IF search_calls[k].reply.status = 200
                                 /\ search_calls[k].reply.items # <<>>
                              THEN ResolvedAs(n, search_calls[k].reply.items[1])
                              ELSE n \in UnresolvedNos
                    ELSE SearchesFor(n) = {} /\ n \in UnresolvedNos

\* a row with a bare id under "name" and a track URL under the well-known
\* column "url" resolved to the id, the first of the two in column order
C18_Witness ==
    \E n \in 1..idx :
        /\ rows[n] = << <<"name", Run("B", IdLen)>>, <<"url", WebUrl7>> >>
        /\ ResolvedAs(n, TrackUri("B"))
        /\ SearchesFor(n) = {}

-----------------------------------------------------------------------------
(* Deduplication and the two cap passes of main *)

\* max_per_artist of the two calls in main
MaxPerArtistOne == 3
MaxPerArtistTwo == 1

\* Tracks asked for in one metadata request.  The source asks for 50
\* (line 341); the lists explored here are much shorter, so the chunk is
\* scaled down for a list to span several chunks.
MetaBatch == 2

\* most entries of resolved_uris explored
MaxResolved == 4

\* URIs are opaque to the deduplication and to the cap passes, so the lists
\* are explored up to a renaming of the tracks: in resolved_uris the tracks
\* first occur in the order of TrackOrder (which is not the alphabetical one)
TrackOrder == <<"C", "A", "D", "B">>

FirstOccurrencesInOrder(s) ==
    \A i \in 1..Len(s) :
        \/ s[i] = 1 /\ i = 1
        \/ \E j \in 1..(i - 1) : s[j] = s[i] \/ s[j] + 1 = s[i]

ResolvedInputs ==
    UNION { { [k \in 1..n |-> TrackUri(TrackOrder[s[k]])] :
                s \in { t \in [1..n -> 1..Len(TrackOrder)] : FirstOccurrencesInOrder(t) } } :
            n \in 0..MaxResolved }

\* what the catalog may hold for a track: nothing (the item is null), a null
\* list of artists, an empty list, two artists
CatalogEntries ==
    { NullItem, [artists |-> None], [artists |-> <<>>],
      [artists |-> <<"Artist2", "Artist1">>] }

Range(seq) == { seq[k] : k \in 1..Len(seq) }

InitCap ==
    /\ pc = "dedup"
    /\ resolved_uris \in ResolvedInputs
    /\ catalog \in [{ IdOf(u) : u \in Range(resolved_uris) } -> CatalogEntries]
    /\ rows = <<>>
    /\ idx = 0
    /\ unresolved = <<>>
    /\ search_calls = <<>>
    /\ resolved_rows = <<>>
    /\ unique_uris = <<>>
    /\ playlist1_uris = <<>>
    /\ playlist2_uris = <<>>
    /\ result = <<>>
    /\ counts = EmptyMap
    /\ offset = 0
    /\ meta_calls = <<>>
    /\ IdleNorm
    /\ IdlePublish
    /\ IdleStart
    /\ IdleHelper

\* lines 409-415, and the entry into the first partition_by_artist_limit
DedupStep ==
    /\ pc = "dedup"
    /\ unique_uris' = Dedup(resolved_uris)
    /\ result' = <<>>
    /\ counts' = EmptyMap
    /\ offset' = 0
    /\ pc' = "part1"
    /\ UNCHANGED <<startVars, helperVars, normVars, resolveVars, playlist1_uris, playlist2_uris, catalog,
                   meta_calls, pubVars>>

Pass == IF pc = "part1" THEN 1 ELSE 2

\* the two caps exchanged between the passes
MaxPerArtist_Swapped == IF pc = "part1" THEN MaxPerArtistTwo ELSE MaxPerArtistOne

MaxPerArtist == IF pc = "part1" THEN MaxPerArtistOne ELSE MaxPerArtistTwo

\* replies of the service to a metadata request
MetaStatuses == {200, 502}

\* the chunk step with the tracks of a failed request kept
FetchChunk_KeepOnFailure ==
    /\ pc \in {"part1", "part2"}
    /\ offset < Len(unique_uris)
    /\ LET chunk == Chunk(unique_uris, offset, MetaBatch)
           ids   == [k \in 1..Len(chunk) |-> IdOf(chunk[k])]
       IN  \E status \in MetaStatuses :
             /\ meta_calls' = Append(meta_calls,
                    [pass |-> Pass, offset |-> offset, ids |-> ids, status |-> status])
             /\ IF status # 200
                THEN /\ result' = result \o chunk
                     /\ UNCHANGED counts
                ELSE LET taken == TakeItems(MetaItems(catalog, ids), result, counts,
                                            MaxPerArtist)
                     IN  /\ result' = taken.result
                         /\ counts' = taken.counts
    /\ offset' = offset + MetaBatch
    /\ UNCHANGED <<startVars, helperVars, pc, normVars, resolveVars, unique_uris, playlist1_uris,
                   playlist2_uris, catalog, pubVars>>

\* lines 341-361: one chunk of partition_by_artist_limit
FetchChunk ==
    /\ pc \in {"part1", "part2"}
    /\ offset < Len(unique_uris)
    /\ LET chunk == Chunk(unique_uris, offset, MetaBatch)
           ids   == [k \in 1..Len(chunk) |-> IdOf(chunk[k])]
       IN  \E status \in MetaStatuses :
             /\ meta_calls' = Append(meta_calls,
                    [pass |-> Pass, offset |-> offset, ids |-> ids, status |-> status])
             /\ IF status # 200
                THEN UNCHANGED <<result, counts>>
                ELSE LET taken == TakeItems(MetaItems(catalog, ids), result, counts,
                                            MaxPerArtist)
                     IN  /\ result' = taken.result
                         /\ counts' = taken.counts
    /\ offset' = offset + MetaBatch
    /\ UNCHANGED <<startVars, helperVars, pc, normVars, resolveVars, unique_uris, playlist1_uris,
                   playlist2_uris, catalog, pubVars>>

\* line 362 and lines 418-419: the pass returns its list
ReturnPartition ==
    /\ pc \in {"part1", "part2"}
    /\ offset >= Len(unique_uris)
    /\ IF pc = "part1"
       THEN /\ playlist1_uris' = result
            /\ pc' = "part2"
            /\ UNCHANGED playlist2_uris
       ELSE /\ playlist2_uris' = result
            /\ pc' = "shuffle"
            /\ UNCHANGED playlist1_uris
    /\ result' = <<>>
    /\ counts' = EmptyMap
    /\ offset' = 0
    /\ UNCHANGED <<startVars, helperVars, normVars, resolveVars, unique_uris, catalog, meta_calls, pubVars>>

NextCap == DedupStep \/ FetchChunk \/ ReturnPartition

SpecCap == InitCap /\ [][NextCap]_vars

\* the list a pass has built so far, or returned
OutputOf(p) ==
    IF p = Pass /\ pc \in {"part1", "part2"} THEN result
    ELSE IF p = 1 THEN playlist1_uris ELSE playlist2_uris

CapOf(p) == IF p = 1 THEN MaxPerArtistOne ELSE MaxPerArtistTwo

\* the artist the catalog service names for a track
ArtistOfUri(u) == ArtistName(TrackItem(catalog, IdOf(u)))

ArtistNames == {"Artist1", "Artist2", "Unknown"}

TracksBy(out, a) == { k \in 1..Len(out) : ArtistOfUri(out[k]) = a }

NoRepeats(seq) == \A i, j \in 1..Len(seq) : seq[i] = seq[j] => i = j

Pos(seq, x) == CHOOSE i \in 1..Len(seq) : seq[i] = x /\ \A j \in 1..(i - 1) : seq[j] # x

\* out is made of entries of the repeat-free list inp, in the order of inp
KeepsOrderOf(out, inp) ==
    /\ NoRepeats(out)
    /\ Range(out) \subseteq Range(inp)
    /\ \A i, j \in 1..Len(out) : i < j => Pos(inp, out[i]) < Pos(inp, out[j])

\* C1: the list of a cap pass holds at most N tracks of any one artist
\* (N = 3 for playlist one, N = 1 for playlist two), and its tracks are in
\* the relative order of the input list.
C1_CapAndOrder ==
    \A p \in {1, 2} :
        /\ \A a \in ArtistNames : Cardinality(TracksBy(OutputOf(p), a)) <= CapOf(p)
        /\ KeepsOrderOf(OutputOf(p), unique_uris)

AllCallsOk == \A k \in 1..Len(meta_calls) : meta_calls[k].status = 200

\* four tracks of one artist went through both passes
C1_Witness ==
    /\ pc = "shuffle"
    /\ Len(unique_uris) = 4
    /\ \A k \in 1..4 :
          catalog[IdOf(unique_uris[k])] = [artists |-> <<"Artist2", "Artist1">>]
    /\ AllCallsOk
    /\ playlist1_uris = SubSeq(unique_uris, 1, 3)
    /\ playlist2_uris = SubSeq(unique_uris, 1, 1)

CallsOf(p) == { k \in 1..Len(meta_calls) : meta_calls[k].pass = p }

PassOver(p) == pc = "shuffle" \/ (p = 1 /\ pc = "part2")

C3_DedupFirstOccurrence ==
    pc # "dedup" =>
        /\ NoRepeats(unique_uris)
        /\ Range(unique_uris) = Range(resolved_uris)
        /\ \A i, j \in 1..Len(unique_uris) :
              i < j => Pos(resolved_uris, unique_uris[i]) < Pos(resolved_uris, unique_uris[j])
        /\ \A k \in 1..Len(meta_calls) :
              LET chunk == Chunk(unique_uris, meta_calls[k].offset, MetaBatch)
              IN  meta_calls[k].ids = [n \in 1..Len(chunk) |-> IdOf(chunk[n])]

\* [A, B, A, C] became [A, B, C] and both passes ran over it
C3_Witness ==
    /\ pc = "shuffle"
    /\ \E a, b, c \in Range(resolved_uris) :
          /\ a # b /\ a # c /\ b # c
          /\ resolved_uris = <<a, b, a, c>>
          /\ unique_uris = <<a, b, c>>
    /\ CallsOf(1) # {} /\ CallsOf(2) # {}

\* the catalog has an entry for the track, and the entry names no artist
NoArtist(u) ==
    LET e == catalog[IdOf(u)]
    IN  e # NullItem /\ e.artists \in {None, <<>>}

\* positions in unique_uris of the tracks of the chunks pass p has fetched
FetchedIn(p) ==
    { k \in 1..Len(unique_uris) :
         \E c \in CallsOf(p) :
            /\ meta_calls[c].status = 200
            /\ k - 1 \in meta_calls[c].offset..(meta_calls[c].offset + MetaBatch - 1) }

\* C15: in each pass, a track of a fetched chunk whose catalog entry has a
\* null or an empty list of artists is in the list of the pass exactly when
\* fewer than N such tracks of fetched chunks come before it: the tracks
\* without artist share one bucket, capped at N like an artist.
C15_UnknownBucketCapped ==
    \A p \in {1, 2} :
        \A k \in FetchedIn(p) :
            NoArtist(unique_uris[k]) =>
                ( unique_uris[k] \in Range(OutputOf(p))
                  <=> Cardinality({ j \in FetchedIn(p) :
                                      j < k /\ NoArtist(unique_uris[j]) }) < CapOf(p) )

\* four tracks without artist, with null and with empty lists of artists:
\* pass one kept three of them and pass two kept one
C15_Witness ==
    /\ pc = "shuffle"
    /\ Len(unique_uris) = 4
    /\ \A k \in 1..4 : NoArtist(unique_uris[k])
    /\ \E k \in 1..4 : catalog[IdOf(unique_uris[k])].artists = None
    /\ \E k \in 1..4 : catalog[IdOf(unique_uris[k])].artists = <<>>
    /\ AllCallsOk
    /\ playlist1_uris = SubSeq(unique_uris, 1, 3)
    /\ playlist2_uris = SubSeq(unique_uris, 1, 1)

\* the bucket of a track the catalog has an entry for
BucketOf(u) == IF NoArtist(u) THEN "Unknown" ELSE catalog[IdOf(u)].artists[1]

\* position k holds the first track of its bucket
FirstOfBucket(k) ==
    /\ catalog[IdOf(unique_uris[k])] # NullItem
    /\ \A j \in 1..(k - 1) :
          catalog[IdOf(unique_uris[j])] = NullItem
          \/ BucketOf(unique_uris[j]) # BucketOf(unique_uris[k])

\* C19: when every metadata request of both passes succeeded, every track
\* of the max-1 list is in the max-3 list, and the max-1 list is made of
\* the first track of each artist, in the order of the input.
C19_MaxOneWithinMaxThree ==
    (pc = "shuffle" /\ AllCallsOk) =>
        /\ Range(playlist2_uris) \subseteq Range(playlist1_uris)
        /\ Range(playlist2_uris) =
              { unique_uris[k] : k \in { i \in 1..Len(unique_uris) : FirstOfBucket(i) } }
        /\ KeepsOrderOf(playlist2_uris, unique_uris)

\* two artists' worth of tracks: the max-3 list has more than the max-1
\* list, which has the first named track and the first track without artist
C19_Witness ==
    /\ pc = "shuffle"
    /\ AllCallsOk
    /\ Len(unique_uris) = 4
    /\ Len(playlist2_uris) = 2
    /\ Len(playlist1_uris) = 4
    /\ \E k \in 1..4 : NoArtist(unique_uris[k])
    /\ \E k \in 1..4 : catalog[IdOf(unique_uris[k])] = [artists |-> <<"Artist2", "Artist1">>]

-----------------------------------------------------------------------------
(* Shuffling and publishing *)

\* URIs sent in one append request.  The source sends 100 (line 377); the
\* lists explored here are much shorter, so the batch is scaled down for a
\* list to span several batches.
AppendBatch == 2

\* most entries of unique_uris the publisher is explored with
MaxPublish == 3

\* the value used for a 429 reply without a Retry-After header (line 382)
DefaultRetryAfter == 5

\* the margin added to the Retry-After value (line 384)
RetryMargin == 1

PublishOrder == <<"A", "B", "C", "D", "E", "F">>

\* the entries of seq at the positions in keep, in the order of seq
RECURSIVE Sublist(_, _, _)
Sublist(seq, keep, from) ==
    IF from > Len(seq) THEN <<>>
    ELSE IF from \in keep THEN <<seq[from]>> \o Sublist(seq, keep, from + 1)
    ELSE Sublist(seq, keep, from + 1)

Sublists(seq) == { Sublist(seq, keep, 1) : keep \in SUBSET (1..Len(seq)) }

\* the orders random.shuffle may leave a list in
Shuffles(seq) ==
    { p \in [1..Len(seq) -> Range(seq)] : \A i, j \in 1..Len(seq) : p[i] = p[j] => i = j }

InitPublish ==
    /\ pc = "shuffle"
    /\ \E n \in 0..MaxPublish :
          unique_uris = [k \in 1..n |-> TrackUri(PublishOrder[k])]
    /\ resolved_uris = unique_uris
    /\ playlist1_uris \in Sublists(unique_uris)
    /\ playlist2_uris \in Sublists(unique_uris)
    /\ rows = <<>>
    /\ idx = 0
    /\ unresolved = <<>>
    /\ search_calls = <<>>
    /\ resolved_rows = <<>>
    /\ result = <<>>
    /\ counts = EmptyMap
    /\ offset = 0
    /\ catalog = EmptyMap
    /\ meta_calls = <<>>
    /\ IdleNorm
    /\ IdlePublish
    /\ IdleStart
    /\ IdleHelper

\* lines 421-429: both lists are shuffled in place
Shuffle ==
    /\ pc = "shuffle"
    /\ playlist1_uris' \in Shuffles(playlist1_uris)
    /\ playlist2_uris' \in Shuffles(playlist2_uris)
    /\ pc' = "clear1"
    /\ UNCHANGED <<startVars, helperVars, normVars, resolveVars, unique_uris, result, counts, offset, catalog,
                   meta_calls, pubVars>>

\* the playlist the publisher is working on, and its list
Target == IF pc \in {"clear1", "add1"} THEN 1 ELSE 2

ListOf(n) == IF n = 1 THEN playlist1_uris ELSE playlist2_uris

\* replies of the service to a replace-with-empty request
ClearStatuses == {200, 502}

\* the clear step with the request made for a non-empty list only
ClearPlaylist_OnlyWhenNonEmpty ==
    /\ pc \in {"clear1", "clear2"}
    /\ IF ListOf(Target) # <<>>
       THEN \E status \in ClearStatuses :
              /\ clears' = [clears EXCEPT ![Target] = Append(@, status)]
              /\ playlists' = IF status \in {200, 201, 204}
                               THEN [playlists EXCEPT ![Target] = <<>>]
                               ELSE playlists
       ELSE UNCHANGED <<clears, playlists>>
    /\ add_i' = 0
    /\ IF ListOf(Target) # <<>>
       THEN /\ pc' = IF Target = 1 THEN "add1" ELSE "add2"
            /\ UNCHANGED exit_code
       ELSE IF Target = 1
            THEN /\ pc' = "clear2"
                 /\ UNCHANGED exit_code
            ELSE /\ pc' = "done"
                 /\ exit_code' = 0
    /\ UNCHANGED <<startVars, helperVars, normVars, resolveVars, capVars, first_posts, posts, slept>>

\* lines 365-371 with lines 432-434 and 437-439: clear_playlist, and the
\* test whether the list is empty
ClearPlaylist ==
    /\ pc \in {"clear1", "clear2"}
    /\ \E status \in ClearStatuses :
          /\ clears' = [clears EXCEPT ![Target] = Append(@, status)]
          /\ playlists' = IF status \in {200, 201, 204}
                           THEN [playlists EXCEPT ![Target] = <<>>]
                           ELSE playlists
    /\ add_i' = 0
    /\ IF ListOf(Target) # <<>>
       THEN /\ pc' = IF Target = 1 THEN "add1" ELSE "add2"
            /\ UNCHANGED exit_code
       ELSE IF Target = 1
            THEN /\ pc' = "clear2"
                 /\ UNCHANGED exit_code
            ELSE /\ pc' = "done"
                 /\ exit_code' = 0
    /\ UNCHANGED <<startVars, helperVars, normVars, resolveVars, capVars, first_posts, posts, slept>>

\* replies of the service to an append request
NoHeaders == [h \in {} |-> 0]
RetryAfter(secs) == [h \in {"Retry-After"} |-> secs]

AppendReplies ==
    { [status |-> 201, headers |-> NoHeaders],
      [status |-> 502, headers |-> NoHeaders],
      [status |-> 429, headers |-> NoHeaders],
      [status |-> 429, headers |-> RetryAfter(2)] }

\* the retry delay with the header ignored
RetryOf_IgnoresHeader(reply) == DefaultRetryAfter

\* int(resp.headers.get("Retry-After", "5"))
RetryOf(reply) ==
    IF "Retry-After" \in DOMAIN reply.headers THEN reply.headers["Retry-After"]
    ELSE DefaultRetryAfter

\* the service takes the URIs of an append request it answers with success
Appended(contents, batch, reply) ==
    IF reply.status \in {200, 201} THEN contents \o batch ELSE contents

PostOf(n, i, batch, reply) ==
    [playlist |-> n, offset |-> i, uris |-> batch, status |-> reply.status,
     headers |-> reply.headers]

\* the batch step with a failed append logged and the run carried on with
\* the next playlist
AddBatch_ContinuesOnFailure ==
    /\ pc \in {"add1", "add2"}
    /\ add_i < Len(ListOf(Target))
    /\ LET batch == Chunk(ListOf(Target), add_i, AppendBatch)
       IN  \E first \in AppendReplies :
             \E second \in (IF first.status = 429 THEN AppendReplies ELSE {first}) :
               LET retried == first.status = 429
                   resp    == IF retried THEN second ELSE first
                   after1  == Appended(playlists[Target], batch, first)
                   after2  == IF retried THEN Appended(after1, batch, second) ELSE after1
               IN  /\ posts' = IF retried
                                THEN << PostOf(Target, add_i, batch, first),
                                        PostOf(Target, add_i, batch, second) >>
                                ELSE << PostOf(Target, add_i, batch, first) >>
                   /\ slept' = IF retried THEN << RetryOf(first) + RetryMargin >>
                                ELSE <<>>
                   /\ playlists' = [playlists EXCEPT ![Target] = after2]
                   /\ first_posts' = [first_posts EXCEPT ![Target] = @ + 1]
                   /\ IF resp.status \notin {200, 201}
                      THEN /\ pc' = IF Target = 1 THEN "clear2" ELSE "exit"
                           /\ exit_code' = IF Target = 1 THEN exit_code ELSE 6
                           /\ UNCHANGED add_i
                      ELSE /\ add_i' = add_i + AppendBatch
                           /\ UNCHANGED <<pc, exit_code>>
    /\ UNCHANGED <<startVars, helperVars, normVars, resolveVars, capVars, clears>>

\* lines 377-389: one batch of add_tracks_in_batches
AddBatch ==
    /\ pc \in {"add1", "add2"}
    /\ add_i < Len(ListOf(Target))
    /\ LET batch == Chunk(ListOf(Target), add_i, AppendBatch)
       IN  \E first \in AppendReplies :
             \E second \in (IF first.status = 429 THEN AppendReplies ELSE {first}) :
               LET retried == first.status = 429
                   resp    == IF retried THEN second ELSE first
                   after1  == Appended(playlists[Target], batch, first)
                   after2  == IF retried THEN Appended(after1, batch, second) ELSE after1
               IN  /\ posts' = IF retried
                                THEN << PostOf(Target, add_i, batch, first),
                                        PostOf(Target, add_i, batch, second) >>
                                ELSE << PostOf(Target, add_i, batch, first) >>
                   /\ slept' = IF retried THEN << RetryOf(first) + RetryMargin >>
                                ELSE <<>>
                   /\ playlists' = [playlists EXCEPT ![Target] = after2]
                   /\ first_posts' = [first_posts EXCEPT ![Target] = @ + 1]
                   /\ IF resp.status \notin {200, 201}
                      THEN /\ pc' = "exit"
                           /\ exit_code' = 6
                           /\ UNCHANGED add_i
                      ELSE /\ add_i' = add_i + AppendBatch
                           /\ UNCHANGED <<pc, exit_code>>
    /\ UNCHANGED <<startVars, helperVars, normVars, resolveVars, capVars, clears>>

\* the loop of add_tracks_in_batches is over; lines 437 and 442
FinishAdd ==
    /\ pc \in {"add1", "add2"}
    /\ add_i >= Len(ListOf(Target))
    /\ posts' = <<>>
    /\ slept' = <<>>
    /\ add_i' = 0
    /\ IF Target = 1
       THEN /\ pc' = "clear2"
            /\ UNCHANGED exit_code
       ELSE /\ pc' = "done"
            /\ exit_code' = 0
    /\ UNCHANGED <<startVars, helperVars, normVars, resolveVars, capVars, playlists, clears, first_posts>>

NextPublish == Shuffle \/ ClearPlaylist \/ AddBatch \/ FinishAdd

SpecPublish == InitPublish /\ [][NextPublish]_vars

LastPost == posts[Len(posts)]

ClearOk(n) == clears[n] # <<>> /\ clears[n][1] \in {200, 201, 204}

\* what playlist n holds when the append requests start
BaseOf(n) == IF ClearOk(n) THEN <<>> ELSE OldContents

\* C8: a batch answered with 429 is posted again exactly once, after a
\* sleep of the Retry-After value (5 without the header) plus the margin of
\* one second; no batch is posted more than twice; when the last request of
\* a batch fails the run ends with exit code 6, and no later batch is
\* posted: the playlist holds the batches before the failed one only.
C8_RetryOnceThenAbort ==
    /\ Len(posts) <= 2
    /\ posts # <<>> =>
          /\ (posts[1].status = 429) <=> (Len(posts) = 2)
          /\ (posts[1].status = 429) <=> (slept # <<>>)
          /\ Len(posts) = 2 =>
                /\ posts[2].uris = posts[1].uris
                /\ posts[2].playlist = posts[1].playlist
                /\ slept = IF "Retry-After" \in DOMAIN posts[1].headers
                           THEN << posts[1].headers["Retry-After"] + 1 >>
                           ELSE << 5 + 1 >>
          /\ (LastPost.status \notin {200, 201}) <=> (pc = "exit")
          /\ pc = "exit" =>
                /\ exit_code = 6
                /\ playlists[LastPost.playlist] =
                      BaseOf(LastPost.playlist) \o
                      SubSeq(ListOf(LastPost.playlist), 1, LastPost.offset)
                /\ first_posts[LastPost.playlist] * AppendBatch =
                      LastPost.offset + AppendBatch
    /\ posts = <<>> => pc # "exit" /\ slept = <<>>

\* the second batch of playlist one was rate limited twice: it was posted
\* twice, and the run ended with the first batch appended only
C8_Witness ==
    /\ pc = "exit"
    /\ Len(posts) = 2
    /\ posts[1].status = 429 /\ posts[2].status = 429
    /\ posts[1].playlist = 1 /\ posts[1].offset > 0
    /\ slept = <<3>>
    /\ first_posts = <<2, 0>>
    /\ clears[2] = <<>>

PublishedOne ==
    \/ pc \in {"clear2", "add2", "done"}
    \/ pc = "exit" /\ posts # <<>> /\ posts[1].playlist = 2

Published(n) == IF n = 1 THEN PublishedOne ELSE pc = "done"

Publishing(n) == (n = 1 /\ pc = "add1") \/ (n = 2 /\ pc = "add2")

BatchesOf(n) == (Len(ListOf(n)) + AppendBatch - 1) \div AppendBatch

\* C9: a playlist gets exactly one replace-with-empty request, before any
\* append request; the appends follow whatever the reply to it was; the
\* batches are consecutive slices of at most AppendBatch URIs of the list
\* and the playlist ends up holding the list; for an empty list the
\* replace-with-empty request is made and no append request.
C9_ClearThenAppend ==
    /\ pc \in {"shuffle", "clear1"} => clears = << <<>>, <<>> >>
    /\ pc \in {"add1", "clear2"} => Len(clears[1]) = 1 /\ clears[2] = <<>>
    /\ pc \in {"add2", "done"} => Len(clears[1]) = 1 /\ Len(clears[2]) = 1
    /\ pc = "exit" => posts # <<>>
    /\ \A n \in {1, 2} :
          /\ Len(clears[n]) <= 1
          /\ clears[n] = <<>> => first_posts[n] = 0 /\ playlists[n] = OldContents
          /\ ListOf(n) = <<>> => first_posts[n] = 0
          /\ Publishing(n) =>
                /\ add_i = first_posts[n] * AppendBatch
                /\ playlists[n] = BaseOf(n) \o Chunk(ListOf(n), 0, add_i)
          /\ Published(n) =>
                /\ first_posts[n] = BatchesOf(n)
                /\ playlists[n] = BaseOf(n) \o ListOf(n)
    /\ \A k \in 1..Len(posts) :
          /\ posts[k].uris = Chunk(ListOf(posts[k].playlist), posts[k].offset, AppendBatch)
          /\ Len(posts[k].uris) \in 1..AppendBatch
          /\ posts[k].offset % AppendBatch = 0

\* playlist one: the clear failed and three URIs were appended in batches;
\* playlist two: the list was empty, it was cleared and nothing was appended
C9_Witness ==
    /\ pc = "done"
    /\ Len(playlist1_uris) = 3
    /\ clears[1] = <<502>>
    /\ playlists[1] = OldContents \o playlist1_uris
    /\ first_posts[1] * AppendBatch >= 3
    /\ playlist2_uris = <<>>
    /\ clears[2] = <<200>>
    /\ playlists[2] = <<>>
    /\ first_posts[2] = 0

\* playlist two has received a request
TouchedTwo ==
    \/ clears[2] # <<>>
    \/ first_posts[2] > 0
    \/ \E k \in 1..Len(posts) : posts[k].playlist = 2

\* the run was ended by a failed append to playlist one
FailedOnOne == pc = "exit" /\ posts # <<>> /\ LastPost.playlist = 1

\* C16 as stated: playlist two receives no request before every batch of
\* playlist one has been appended; a run ended by a failed append to
\* playlist one leaves playlist two as it was, and playlist one cleared and
\* holding the batches before the failed one only.
C16_OneThenTwo_Cleared ==
    /\ TouchedTwo => Len(playlists[1]) >= Len(playlist1_uris)
    /\ FailedOnOne =>
          /\ ~TouchedTwo
          /\ playlists[2] = OldContents
          /\ playlists[1] = SubSeq(playlist1_uris, 1, LastPost.offset)
          /\ Len(playlists[1]) < Len(playlist1_uris)

\* C16: playlist two receives no request before every batch of playlist
\* one has been appended; a run ended by a failed append to playlist one
\* leaves playlist two as it was, and playlist one holding what the clear
\* request left of it (nothing when it succeeded, the old contents when it
\* failed) followed by the batches before the failed one only.
C16_OneThenTwo ==
    /\ TouchedTwo => playlists[1] = BaseOf(1) \o playlist1_uris
    /\ FailedOnOne =>
          /\ ~TouchedTwo
          /\ playlists[2] = OldContents
          /\ playlists[1] = BaseOf(1) \o SubSeq(playlist1_uris, 1, LastPost.offset)
          /\ LastPost.offset < Len(playlist1_uris)

\* playlist one was cleared, its first batch appended and its second batch
\* refused: the run ended with playlist two untouched
C16_Witness ==
    /\ FailedOnOne
    /\ clears = << <<200>>, <<>> >>
    /\ Len(playlist1_uris) = 3
    /\ playlists[1] = SubSeq(playlist1_uris, 1, AppendBatch)
    /\ playlists[2] = OldContents
    /\ playlist2_uris # <<>>

\* C10: after a successful run each playlist holds its cap-filtered tracks
\* in the order in which they appear in the CSV.
C10_PublishedInCsvOrder ==
    (pc = "done" /\ ClearOk(1) /\ ClearOk(2)) =>
        \A n \in {1, 2} :
            /\ Range(playlists[n]) = Range(ListOf(n))
            /\ KeepsOrderOf(playlists[n], unique_uris)

-----------------------------------------------------------------------------
(* The whole run of main: token provider, CSV reader, resolution, caps,   *)
(* publishing                                                              *)

DirectToken   == <<" ", "T", "0", " ">>
ConfiguredRefresh == <<"R", "1">>
IssuedRefresh == <<"R", "2">>
IssuedAccess  == <<"T", "1">>
ClientId      == <<"i", "d">>
ClientSecret  == <<"s", "e", "c">>
MarkerSet     == <<"t", "r", "u", "e">>

\* the environments explored: each variable unset or set; CI also set to ""
EnvInputs ==
    [ACCESS_TOKEN_ENV : {None, DirectToken},
     REFRESH_TOKEN    : {None, ConfiguredRefresh},
     CLIENT_ID        : {None, ClientId},
     CLIENT_SECRET    : {None, ClientSecret},
     GITHUB_ACTIONS   : {None, MarkerSet},
     CI               : {None, <<>>, MarkerSet}]

\* the accounts service answers a refresh exchange with an access token,
\* with a body that has none, or with an error
RefreshReplies ==
    { TokenReply(200, IssuedAccess, None), TokenReply(200, None, None),
      TokenReply(400, None, None) }

\* and an authorization-code exchange with a new refresh credential, with a
\* body that has none, or with an error
CodeReplies ==
    { TokenReply(200, IssuedAccess, IssuedRefresh), TokenReply(200, IssuedAccess, None),
      TokenReply(400, None, None) }

\* what the operator may type at the prompt of line 148
Typed == { <<>>, <<" ">>, <<" ", "c", "0", "d", "e", "\n">>, EOFError }

\* the .env file before the run: absent, or with an unrelated key and an
\* older refresh credential
OldEnvFile == << <<"CSV_PATH", <<"t", ".", "c", "s", "v">> >>,
                 <<"SPOTIFY_REFRESH_TOKEN", <<"R", "0">> >> >>

\* the records csv.DictReader yields for the CSV explored: one row, whose
\* title needs a search
CsvRecords == << << <<"Title ", <<" ">> \o SongText>>, <<" URL", None>> >> >>

CsvSource(kind, status, exists, readable) ==
    [kind |-> kind, status |-> status, exists |-> exists, readable |-> readable]

\* what CSV_PATH may point at: a URL answered with 200 or with 404, a file
\* that is missing, one that exists but cannot be opened for reading (a
\* directory, a file without read permission), and a readable one
CsvSources ==
    { CsvSource("url", 200, TRUE, TRUE), CsvSource("url", 404, FALSE, FALSE),
      CsvSource("file", 0, FALSE, FALSE), CsvSource("file", 0, TRUE, FALSE),
      CsvSource("file", 0, TRUE, TRUE) }

\* the catalog of the run: every track the search may return has artists
MainCatalog ==
    [id \in {Run("C", IdLen), Run("A", IdLen)} |-> [artists |-> <<"Artist2", "Artist1">>]]

InitMain ==
    /\ pc = "token"
    /\ env \in EnvInputs
    /\ env_file \in {None, OldEnvFile}
    /\ csv_source \in CsvSources
    /\ access_token = None
    /\ token_calls = <<>>
    /\ browser_opens = 0
    /\ input_reads = <<>>
    /\ env_writes = 0
    /\ IdleNorm
    /\ IdleResolve
    /\ unique_uris = <<>>
    /\ playlist1_uris = <<>>
    /\ playlist2_uris = <<>>
    /\ result = <<>>
    /\ counts = EmptyMap
    /\ offset = 0
    /\ catalog = MainCatalog
    /\ meta_calls = <<>>
    /\ IdlePublish
    /\ IdleHelper

publishedVars == <<playlists, clears, first_posts, add_i, posts, slept>>
pipelineVars == <<normVars, resolveVars, capVars, publishedVars, helperVars>>

\* lines 94-96: state DIRECT
UseDirectToken ==
    /\ pc = "token"
    /\ HasDirect
    /\ access_token' = Strip(env.ACCESS_TOKEN_ENV)
    /\ pc' = "read_csv"
    /\ UNCHANGED <<env, token_calls, browser_opens, input_reads, env_file, env_writes,
                   csv_source, exit_code, pipelineVars>>

\* state REFRESH with the exchange repeated once when it fails
ExchangeRefresh_Retries ==
    /\ pc = "token"
    /\ ~HasDirect
    /\ HasRefresh
    /\ \E reply \in RefreshReplies :
         LET got == get_access_token_from_refresh(reply)
             req == RefreshRequest(env.CLIENT_ID, env.CLIENT_SECRET, env.REFRESH_TOKEN, reply)
         IN  IF got = RuntimeError
             THEN /\ token_calls' = token_calls \o <<req, req>>
                  /\ pc' = "interactive"
                  /\ UNCHANGED access_token
             ELSE /\ token_calls' = Append(token_calls, req)
                  /\ access_token' = got
                  /\ pc' = "read_csv"
    /\ UNCHANGED <<env, browser_opens, input_reads, env_file, env_writes, csv_source,
                   exit_code, pipelineVars>>

\* lines 99-104 with lines 59-83: state REFRESH
ExchangeRefresh ==
    /\ pc = "token"
    /\ ~HasDirect
    /\ HasRefresh
    /\ \E reply \in RefreshReplies :
         LET got == get_access_token_from_refresh(reply)
         IN  /\ token_calls' = Append(token_calls,
                    RefreshRequest(env.CLIENT_ID, env.CLIENT_SECRET, env.REFRESH_TOKEN, reply))
             /\ IF got = RuntimeError
                THEN /\ pc' = "interactive"
                     /\ UNCHANGED access_token
                ELSE /\ access_token' = got
                     /\ pc' = "read_csv"
    /\ UNCHANGED <<env, browser_opens, input_reads, env_file, env_writes, csv_source,
                   exit_code, pipelineVars>>

\* lines 94 and 99 both false
SkipRefresh ==
    /\ pc = "token"
    /\ ~HasDirect
    /\ ~HasRefresh
    /\ pc' = "interactive"
    /\ UNCHANGED <<startVars, exit_code, pipelineVars>>

\* line 111 false, then lines 192-201: state FAILURE
NoCredential ==
    /\ pc = "interactive"
    /\ ~HasClient
    /\ pc' = "exit"
    /\ exit_code' = 2
    /\ UNCHANGED <<startVars, pipelineVars>>

\* state INTERACTIVE with the test of line 115 made after the browser is opened
OpenBrowser_BeforeCiTest ==
    /\ pc = "interactive"
    /\ HasClient
    /\ browser_opens' = browser_opens + 1
    /\ IF Unattended
       THEN pc' = "exit" /\ exit_code' = 2
       ELSE pc' = "prompt" /\ UNCHANGED exit_code
    /\ UNCHANGED <<env, access_token, token_calls, input_reads, env_file, env_writes,
                   csv_source, pipelineVars>>

\* lines 111-140: state INTERACTIVE up to the prompt
OpenBrowser ==
    /\ pc = "interactive"
    /\ HasClient
    /\ IF Unattended
       THEN /\ pc' = "exit"
            /\ exit_code' = 2
            /\ UNCHANGED browser_opens
       ELSE /\ browser_opens' = browser_opens + 1
            /\ pc' = "prompt"
            /\ UNCHANGED exit_code
    /\ UNCHANGED <<env, access_token, token_calls, input_reads, env_file, env_writes,
                   csv_source, pipelineVars>>

\* lines 143-150: the prompt; an exception of input() is caught at line 189,
\* and an empty code leads to lines 192-201
ReadCode ==
    /\ pc = "prompt"
    /\ \E typed \in Typed :
         /\ input_reads' = Append(input_reads, typed)
         /\ IF typed = EOFError \/ Strip(typed) = <<>>
            THEN pc' = "exit" /\ exit_code' = 2
            ELSE pc' = "code_exchange" /\ UNCHANGED exit_code
    /\ UNCHANGED <<env, access_token, token_calls, browser_opens, env_file, env_writes,
                   csv_source, pipelineVars>>

\* the code the operator pasted, line 148
PastedCode == Strip(input_reads[Len(input_reads)])

\* lines 153-182: the exchange of the code and the rewrite of .env
ExchangeCode ==
    /\ pc = "code_exchange"
    /\ \E reply \in CodeReplies :
         /\ token_calls' = Append(token_calls,
                CodeRequest(env.CLIENT_ID, env.CLIENT_SECRET, PastedCode, reply))
         /\ IF reply.status # 200 \/ ~Truthy(reply.refresh_token)
            THEN /\ pc' = "exit"
                 /\ exit_code' = 2
                 /\ UNCHANGED <<env_file, env_writes>>
            ELSE /\ env_file' = WriteEnv(env_file, env.CLIENT_ID, env.CLIENT_SECRET,
                                         reply.refresh_token)
                 /\ env_writes' = env_writes + 1
                 /\ pc' = "final_exchange"
                 /\ UNCHANGED exit_code
    /\ UNCHANGED <<env, access_token, browser_opens, input_reads, csv_source, pipelineVars>>

\* the refresh credential of the latest token reply, line 166
NewRefresh == token_calls[Len(token_calls)].reply.refresh_token

\* lines 185-188, then lines 192-201 when the exchange fails
ExchangeNewRefresh ==
    /\ pc = "final_exchange"
    /\ \E reply \in RefreshReplies :
         LET got == get_access_token_from_refresh(reply)
         IN  /\ token_calls' = Append(token_calls,
                    RefreshRequest(env.CLIENT_ID, env.CLIENT_SECRET, NewRefresh, reply))
             /\ IF got = RuntimeError
                THEN /\ pc' = "exit"
                     /\ exit_code' = 2
                     /\ UNCHANGED access_token
                ELSE /\ access_token' = got
                     /\ pc' = "read_csv"
                     /\ UNCHANGED exit_code
    /\ UNCHANGED <<env, browser_opens, input_reads, env_file, env_writes, csv_source,
                   pipelineVars>>

\* lines 256-284: read_csv.  open() of a path that exists and cannot be read
\* raises an OSError nothing catches: the interpreter exits with status 1
ReadCsv ==
    /\ pc = "read_csv"
    /\ IF csv_source.kind = "url"
       THEN IF csv_source.status # 200
            THEN pc' = "exit" /\ exit_code' = 5 /\ UNCHANGED rows
            ELSE /\ rows' = [k \in 1..Len(CsvRecords) |-> LowRow(CsvRecords[k])]
                 /\ pc' = "resolve"
                 /\ UNCHANGED exit_code
       ELSE IF ~csv_source.exists
            THEN pc' = "exit" /\ exit_code' = 5 /\ UNCHANGED rows
            ELSE IF ~csv_source.readable
                 THEN pc' = "exit" /\ exit_code' = 1 /\ UNCHANGED rows
                 ELSE /\ rows' = [k \in 1..Len(CsvRecords) |-> LowRow(CsvRecords[k])]
                      /\ pc' = "resolve"
                      /\ UNCHANGED exit_code
    /\ UNCHANGED <<startVars, normVars, idx, unresolved, search_calls, resolved_rows,
                   resolved_uris, capVars, publishedVars, helperVars>>

get_access_token ==
    \/ UseDirectToken
    \/ ExchangeRefresh
    \/ SkipRefresh
    \/ NoCredential
    \/ OpenBrowser
    \/ ReadCode
    \/ ExchangeCode
    \/ ExchangeNewRefresh

NextMain == get_access_token \/ ReadCsv \/ NextResolve \/ NextCap \/ NextPublish

SpecMain == InitMain /\ [][NextMain]_vars

\* the run has ended with the given exit code
ExitedWith(code) == pc \in {"exit", "done"} /\ exit_code = code

\* the token provider has returned or aborted
ProviderOver == pc \notin {"token", "interactive", "prompt", "code_exchange", "final_exchange"}

CallsWith(credential) ==
    { k \in 1..Len(token_calls) : token_calls[k].credential = credential }

CodeExchanges ==
    { k \in 1..Len(token_calls) : token_calls[k].grant = "authorization_code" }

NoCatalogCall ==
    /\ search_calls = <<>>
    /\ meta_calls = <<>>
    /\ clears = << <<>>, <<>> >>
    /\ first_posts = <<0, 0>>
    /\ posts = <<>>
    /\ playlists = <<OldContents, OldContents>>

\* C11: with SPOTIFY_ACCESS_TOKEN set, whatever else is set, the provider
\* never leaves state DIRECT: no token request is ever sent, the browser is
\* not opened, nothing is read from the operator, .env is not written, the
\* run does not end for want of a credential, and the token main goes on
\* with is the configured one (without the blanks around it); when the
\* provider returns no call of any kind has been made.
C11_DirectTokenUsed ==
    env.ACCESS_TOKEN_ENV = DirectToken =>
        /\ pc \notin {"interactive", "prompt", "code_exchange", "final_exchange"}
        /\ token_calls = <<>>
        /\ browser_opens = 0
        /\ input_reads = <<>>
        /\ env_writes = 0
        /\ ~ExitedWith(2)
        /\ pc # "token" => access_token = <<"T", "0">>
        /\ pc = "token" => access_token = None
        /\ pc = "read_csv" => NoCatalogCall

\* the direct token was returned with a refresh credential, a client
\* identity and both unattended markers set as well
C11_Witness ==
    /\ pc = "read_csv"
    /\ access_token = <<"T", "0">>
    /\ env.ACCESS_TOKEN_ENV = DirectToken
    /\ env.REFRESH_TOKEN = ConfiguredRefresh
    /\ env.CLIENT_ID = ClientId /\ env.CLIENT_SECRET = ClientSecret
    /\ env.GITHUB_ACTIONS = MarkerSet /\ env.CI = MarkerSet

RefreshConfigured ==
    /\ env.ACCESS_TOKEN_ENV = None
    /\ env.REFRESH_TOKEN = ConfiguredRefresh
    /\ env.CLIENT_ID = ClientId
    /\ env.CLIENT_SECRET = ClientSecret

MarkedUnattended == env.GITHUB_ACTIONS = MarkerSet \/ env.CI = MarkerSet

\* C12: without a direct token and with a refresh credential and a client
\* identity, the first token request is the exchange of the configured
\* refresh credential, and no other request ever carries that credential.
\* When it is answered with an access token, that token is returned and no
\* other request is made.  When it fails the run has not ended: the
\* provider is in state INTERACTIVE, and a run that ends there for want of a
\* credential ends through the unattended test or after the browser was
\* opened.
C12_RefreshOnceThenFallThrough ==
    RefreshConfigured =>
        /\ pc = "token" => token_calls = <<>>
        /\ pc # "token" =>
              /\ token_calls # <<>>
              /\ token_calls[1].grant = "refresh_token"
              /\ token_calls[1].credential = ConfiguredRefresh
              /\ token_calls[1].client = <<ClientId, ClientSecret>>
              /\ CallsWith(ConfiguredRefresh) = {1}
              /\ IF token_calls[1].reply = TokenReply(200, IssuedAccess, None)
                 THEN /\ access_token = IssuedAccess
                      /\ Len(token_calls) = 1
                      /\ ProviderOver
                      /\ ~ExitedWith(2)
                      /\ browser_opens = 0
                 ELSE /\ pc = "interactive" =>
                           exit_code = NotExited /\ Len(token_calls) = 1
                      /\ pc # "interactive" =>
                           \/ MarkedUnattended /\ pc = "exit" /\ ExitedWith(2)
                           \/ ~MarkedUnattended /\ browser_opens = 1

\* the configured credential was refused, the operator pasted a code, and
\* the credential issued for it was exchanged for the token of the run
C12_Witness ==
    /\ RefreshConfigured
    /\ pc = "read_csv"
    /\ Len(token_calls) = 3
    /\ token_calls[1].reply.status = 400
    /\ token_calls[2].grant = "authorization_code"
    /\ token_calls[3].credential = IssuedRefresh
    /\ access_token = IssuedAccess

\* C13: with GITHUB_ACTIONS or CI set to a non-empty value the browser is
\* never opened, nothing is read from the operator, no authorization code
\* is exchanged and .env is not written; a provider that has found no token
\* and is past state INTERACTIVE has ended the run with exit code 2.
C13_UnattendedAbortsFirst ==
    MarkedUnattended =>
        /\ browser_opens = 0
        /\ input_reads = <<>>
        /\ CodeExchanges = {}
        /\ env_writes = 0
        /\ pc \notin {"prompt", "code_exchange", "final_exchange"}
        /\ (access_token = None /\ pc \notin {"token", "interactive"}) =>
              pc = "exit" /\ ExitedWith(2) /\ NoCatalogCall

\* in CI, with a client identity, the configured refresh credential was
\* refused and the run ended with exit code 2
C13_Witness ==
    /\ env.CI = MarkerSet
    /\ env.GITHUB_ACTIONS = None
    /\ RefreshConfigured
    /\ pc = "exit"
    /\ ExitedWith(2)
    /\ Len(token_calls) = 1

SourceBad ==
    \/ csv_source.kind = "url" /\ csv_source.status # 200
    \/ csv_source.kind = "file" /\ ~(csv_source.exists /\ csv_source.readable)

\* C14: a run in which the provider finds no token ends with exit code 2;
\* a run with a token whose CSV source is missing or unreadable ends with
\* exit code 5; a run ended by a failed append ends with exit code 6, and
\* 6 is used for nothing else; a run that ends with 2 or 5 has made no
\* search, metadata, clear or append call and both playlists hold what they
\* held.
C14_ExitCodes ==
    /\ (ProviderOver /\ access_token = None) => pc = "exit" /\ ExitedWith(2)
    /\ ExitedWith(2) => access_token = None
    /\ (ProviderOver /\ access_token # None /\ pc # "read_csv" /\ SourceBad) =>
          pc = "exit" /\ ExitedWith(5)
    /\ ExitedWith(5) => SourceBad
    /\ ExitedWith(6) <=> (posts # <<>> /\ posts[Len(posts)].status \notin {200, 201})
    /\ (ExitedWith(2) \/ ExitedWith(5)) => NoCatalogCall

-----------------------------------------------------------------------------
(* scripts/get_spotify_refresh_token.py: the callback listener and the    *)
(* wait of main for the authorization code                                 *)

\* Seconds main waits for the code.  The source waits 300 (line 180), one
\* second per turn of the loop; the wait is scaled down.
WaitSeconds == 3

\* most requests the listener is explored with
MaxCallbacks == 2

CallbackCode == <<"c", "0", "d", "e">>

\* the requests the listener may receive: another path, the redirect with
\* an error, without a code, with a code
Callbacks == {"not_found", "error", "missing_code", "code"}

mainFrame == <<normVars, resolveVars, capVars, pubVars, startVars>>

InitHelper ==
    /\ pc = "helper"
    /\ h_pc = "start"
    /\ l_pc = "idle"
    /\ httpd = NoServer
    /\ auth_code = None
    /\ tmp_file = None
    /\ elapsed = 0
    /\ callbacks = <<>>
    /\ pasted = None
    /\ IdleNorm
    /\ IdleResolve
    /\ IdleCap
    /\ IdlePublish
    /\ IdleStart

\* lines 168-169: main starts the listener thread
StartServerThread ==
    /\ h_pc = "start"
    /\ h_pc' = "open"
    /\ l_pc' = "starting"
    /\ UNCHANGED <<pc, mainFrame, httpd, auth_code, tmp_file, elapsed, callbacks, pasted>>

\* lines 172-179: main opens the browser and enters the wait
OpenAuthUrl ==
    /\ h_pc = "open"
    /\ auth_code' = None
    /\ h_pc' = "wait"
    /\ UNCHANGED <<pc, mainFrame, l_pc, httpd, tmp_file, elapsed, callbacks, pasted>>

\* lines 89-95: the listener creates the server and serves
start_local_server ==
    /\ l_pc = "starting"
    /\ httpd' = [auth_code |-> None, auth_error |-> None]
    /\ l_pc' = "serving"
    /\ UNCHANGED <<pc, mainFrame, h_pc, auth_code, tmp_file, elapsed, callbacks, pasted>>

\* the handler with the code also written to the file main polls
do_GET_WritesTmpFile ==
    /\ l_pc = "serving"
    /\ h_pc \notin {"exit"}
    /\ Len(callbacks) < MaxCallbacks
    /\ \E req \in Callbacks :
         /\ callbacks' = Append(callbacks, [req |-> req, at |-> elapsed])
         /\ httpd' = CASE req = "not_found"    -> httpd
                       [] req = "error"        -> [httpd EXCEPT !.auth_error = <<"denied">>]
                       [] req = "missing_code" -> [httpd EXCEPT !.auth_error = "missing_code"]
                       [] req = "code"         -> [httpd EXCEPT !.auth_code = CallbackCode]
         /\ tmp_file' = IF req = "code" THEN CallbackCode ELSE tmp_file
    /\ UNCHANGED <<pc, mainFrame, h_pc, l_pc, auth_code, elapsed, pasted>>

\* lines 55-86: the listener handles one request
do_GET ==
    /\ l_pc = "serving"
    /\ h_pc \notin {"exit"}
    /\ Len(callbacks) < MaxCallbacks
    /\ \E req \in Callbacks :
         /\ callbacks' = Append(callbacks, [req |-> req, at |-> elapsed])
         /\ httpd' = CASE req = "not_found"    -> httpd
                       [] req = "error"        -> [httpd EXCEPT !.auth_error = <<"denied">>]
                       [] req = "missing_code" -> [httpd EXCEPT !.auth_error = "missing_code"]
                       [] req = "code"         -> [httpd EXCEPT !.auth_code = CallbackCode]
    /\ UNCHANGED <<pc, mainFrame, h_pc, l_pc, auth_code, tmp_file, elapsed, pasted>>

\* line 86 and line 96: the thread started by the handler shuts the server
\* down, serve_forever returns and the listener thread ends
ShutdownServer ==
    /\ l_pc = "serving"
    /\ httpd.auth_code # None
    /\ l_pc' = "stopped"
    /\ UNCHANGED <<pc, mainFrame, h_pc, httpd, auth_code, tmp_file, elapsed, callbacks, pasted>>

\* lines 180 and 192: one more turn of the loop, and its sleep
Sleep ==
    /\ h_pc = "wait"
    /\ elapsed < WaitSeconds
    /\ elapsed' = elapsed + 1
    /\ h_pc' = "poll"
    /\ UNCHANGED <<pc, mainFrame, l_pc, httpd, auth_code, tmp_file, callbacks, pasted>>

\* lines 194-202: the test for the temporary file
PollTmpFile ==
    /\ h_pc = "poll"
    /\ IF tmp_file # None
       THEN /\ auth_code' = Strip(tmp_file)
            /\ tmp_file' = None
            /\ h_pc' = "after_wait"
       ELSE /\ h_pc' = "wait"
            /\ UNCHANGED <<auth_code, tmp_file>>
    /\ UNCHANGED <<pc, mainFrame, l_pc, httpd, elapsed, callbacks, pasted>>

\* line 180: the time is up
WaitTimeout ==
    /\ h_pc = "wait"
    /\ elapsed >= WaitSeconds
    /\ h_pc' = "after_wait"
    /\ UNCHANGED <<pc, mainFrame, l_pc, httpd, auth_code, tmp_file, elapsed, callbacks, pasted>>

\* what the operator may type at the prompt of line 208
Pastes == { <<>>, <<" ">>, <<"c", "0", "d", "e", "\n">> }

\* lines 205-215: without a code the operator is asked to paste one
AskForCode ==
    /\ h_pc = "after_wait"
    /\ IF ~Truthy(auth_code)
       THEN \E typed \in Pastes :
              /\ pasted' = typed
              /\ IF Strip(typed) = <<>>
                 THEN h_pc' = "exit" /\ UNCHANGED auth_code
                 ELSE h_pc' = "exchange" /\ auth_code' = Strip(typed)
       ELSE /\ h_pc' = "exchange"
            /\ UNCHANGED <<auth_code, pasted>>
    /\ UNCHANGED <<pc, mainFrame, l_pc, httpd, tmp_file, elapsed, callbacks>>

NextHelper ==
    \/ StartServerThread
    \/ OpenAuthUrl
    \/ start_local_server
    \/ do_GET
    \/ ShutdownServer
    \/ Sleep
    \/ PollTmpFile
    \/ WaitTimeout
    \/ AskForCode

SpecHelper == InitHelper /\ [][NextHelper]_vars

\* C17: the temporary file main polls is never written; while main waits
\* it has no code, whatever the listener has captured; its wait ends only
\* when the time is up, without a code; the operator is asked for the code
\* only then, and the code main goes on with is the one the operator typed.
C17_CapturedCodeNeverReachesMain ==
    /\ tmp_file = None
    /\ h_pc \in {"start", "open", "wait", "poll", "after_wait"} =>
          auth_code = None /\ pasted = None
    /\ h_pc = "after_wait" => elapsed >= WaitSeconds
    /\ pasted # None => elapsed >= WaitSeconds
    /\ h_pc = "exchange" =>
          /\ pasted = <<"c", "0", "d", "e", "\n">>
          /\ auth_code = <<"c", "0", "d", "e">>
    /\ h_pc = "exit" => pasted # None /\ auth_code = None

\* the listener captured the code before main's first poll and was shut
\* down; main waited until the time was up and has no code
C17_Witness ==
    /\ h_pc = "after_wait"
    /\ auth_code = None
    /\ elapsed = WaitSeconds
    /\ l_pc = "stopped"
    /\ httpd.auth_code = CallbackCode
    /\ \E k \in 1..Len(callbacks) : callbacks[k].req = "code" /\ callbacks[k].at = 0

=============================================================================
